---------------------------- MODULE Spec2Model ----------------------------
(***************************************************************************)
(* The client state store of the ICARUS dashboard (src/src/ui/store): the  *)
(* threat, analytics, dashboard, auth and settings slices, each a reducer  *)
(* applied to the actions dispatched to the store.                         *)
(***************************************************************************)
EXTENDS Integers, Sequences, FiniteSets, TLC

\* threat, analytics, dashboard, auth, settings: the state of the slices;
\* lastAction: the action the store reduced last; requests: the fetch
\* requests issued so far, in the order of their start actions; pages: the
\* pages that read the store and dispatch to it.
VARIABLES threat, analytics, dashboard, auth, settings, lastAction, requests,
          pages

vars ==
    <<threat, analytics, dashboard, auth, settings, lastAction, requests,
      pages>>

(***************************************************************************)
(* Values of the host language.                                            *)
(***************************************************************************)

\* `T | null`: null is the empty tuple, a present value x is <<x>>.
NULL == <<>>

Some(x) == <<x>>

\* The result of ToNumber on a value that is no number (a function object).
NaN == -1

\* The own properties of Object.prototype, which every object literal `{}`
\* inherits: a lookup of one of these names on `{}` yields a function.
ObjectPrototypeKeys ==
    {"constructor", "toString", "valueOf", "hasOwnProperty",
     "isPrototypeOf", "propertyIsEnumerable", "toLocaleString"}

\* The object literal `{}` used as a Record<string, number>.
EmptyRecord == [k \in {} |-> 0]

\* `if (m[k])`: the truthiness of the property lookup. An own property is a
\* number (truthy unless 0 or NaN); a missing one is looked up on the
\* prototype, where it is a function (truthy) or undefined (falsy).
Truthy(m, k) ==
    IF k \in DOMAIN m
    THEN m[k] # 0 /\ m[k] # NaN
    ELSE k \in ObjectPrototypeKeys

\* The value `m[k]++` stores: the old value plus one, NaN when the old value
\* is the inherited function.
Incremented(m, k) ==
    IF k \in DOMAIN m
    THEN (IF m[k] = NaN THEN NaN ELSE m[k] + 1)
    ELSE NaN

\* `m[k] = v` on a plain object.
Put(m, k, v) == [x \in (DOMAIN m) \cup {k} |-> IF x = k THEN v ELSE m[x]]

\* `if (m[k]) { m[k]++ } else { m[k] = 1 }`
CountKey(m, k) ==
    IF Truthy(m, k) THEN Put(m, k, Incremented(m, k)) ELSE Put(m, k, 1)

(***************************************************************************)
(* Threat slice (threatSlice.ts).                                          *)
(***************************************************************************)

Severities == {"critical", "high", "medium", "low", "info"}

Statuses == {"active", "mitigated", "investigating", "resolved"}

\* A Threat; the fields the reducers never read are carried along.
MkThreat(id, type, severity, status) ==
    [id |-> id, type |-> type, severity |-> severity, source |-> "10.0.0.7",
     target |-> "srv-" \o id, timestamp |-> "2024-01-01T00:00:00Z",
     status |-> status, description |-> "threat " \o id,
     details |-> EmptyRecord, confidence |-> 90]

threatInitialState ==
    [threats |-> <<>>,
     activeThreats |-> 0,
     loading |-> FALSE,
     error |-> NULL,
     selectedThreat |-> NULL,
     threatsByCategory |-> EmptyRecord,
     threatsBySeverity |-> EmptyRecord,
     threatsByStatus |-> EmptyRecord,
     threatMap |-> [nodes |-> <<>>, links |-> <<>>, loading |-> FALSE]]

\* `list.filter(threat => threat.status === 'active').length`
RECURSIVE CountActive(_)
CountActive(list) ==
    IF list = <<>> THEN 0
    ELSE (IF Head(list).status = "active" THEN 1 ELSE 0)
         + CountActive(Tail(list))

\* The forEach loop that counts the threats of `list` by the field `f` into
\* the record `m`, in list order.
RECURSIVE CountBy(_, _, _)
CountBy(list, f, m) ==
    IF list = <<>> THEN m
    ELSE CountBy(Tail(list), f, CountKey(m, Head(list)[f]))

\* `threats.findIndex(threat => threat.id === id)`, 1-based; 0 for -1.
RECURSIVE FindIndexFrom(_, _, _)
FindIndexFrom(list, id, i) ==
    IF i > Len(list) THEN 0
    ELSE IF list[i].id = id THEN i
    ELSE FindIndexFrom(list, id, i + 1)

FindIndex(list, id) == FindIndexFrom(list, id, 1)

fetchThreatsStart(state) ==
    [state EXCEPT !.loading = TRUE, !.error = NULL]

fetchThreatsSuccess(state, payload) ==
    [state EXCEPT
        !.threats = payload,
        !.loading = FALSE,
        !.activeThreats = CountActive(payload),
        !.threatsByCategory = CountBy(payload, "type", EmptyRecord),
        !.threatsBySeverity = CountBy(payload, "severity", EmptyRecord),
        !.threatsByStatus = CountBy(payload, "status", EmptyRecord)]

\* fetchThreatsFailure as it would be if a failed fetch emptied the
\* collection.
fetchThreatsFailure_ClearsThreats(state, payload) ==
    [state EXCEPT !.loading = FALSE, !.error = Some(payload),
                  !.threats = <<>>]

fetchThreatsFailure(state, payload) ==
    [state EXCEPT !.loading = FALSE, !.error = Some(payload)]

\* selectThreat as it would be if an id that is not found left the
\* selection in place.
selectThreat_KeepsSelection(state, payload) ==
    LET i == FindIndex(state.threats, payload)
    IN  IF i = 0 THEN state
        ELSE [state EXCEPT !.selectedThreat = Some(state.threats[i])]

selectThreat(state, payload) ==
    LET i == FindIndex(state.threats, payload)
    IN  [state EXCEPT
            !.selectedThreat = IF i = 0 THEN NULL ELSE Some(state.threats[i])]

clearSelectedThreat(state) ==
    [state EXCEPT !.selectedThreat = NULL]

\* updateThreatStatus as it would be if the selection were updated outside
\* the test of threatIndex.
updateThreatStatus_UpdatesSelectionAnyway(state, payload) ==
    LET threatIndex == FindIndex(state.threats, payload.id)
        threats == [state.threats EXCEPT ![threatIndex].status = payload.status]
        sel == state.selectedThreat
        selected ==
            IF sel # NULL /\ sel[1].id = payload.id
            THEN Some([sel[1] EXCEPT !.status = payload.status])
            ELSE sel
    IN  IF threatIndex = 0 THEN [state EXCEPT !.selectedThreat = selected]
        ELSE [state EXCEPT
                !.threats = threats,
                !.activeThreats = CountActive(threats),
                !.threatsByStatus = CountBy(threats, "status", EmptyRecord),
                !.selectedThreat = selected]

updateThreatStatus(state, payload) ==
    LET threatIndex == FindIndex(state.threats, payload.id)
        threats == [state.threats EXCEPT ![threatIndex].status = payload.status]
        sel == state.selectedThreat
    IN  IF threatIndex = 0 THEN state
        ELSE [state EXCEPT
                !.threats = threats,
                !.activeThreats = CountActive(threats),
                !.threatsByStatus = CountBy(threats, "status", EmptyRecord),
                !.selectedThreat =
                    IF sel # NULL /\ sel[1].id = payload.id
                    THEN Some([sel[1] EXCEPT !.status = payload.status])
                    ELSE sel]

fetchThreatMapStart(state) ==
    [state EXCEPT !.threatMap.loading = TRUE]

fetchThreatMapSuccess(state, payload) ==
    [state EXCEPT !.threatMap =
        [nodes |-> payload.nodes, links |-> payload.links, loading |-> FALSE]]

fetchThreatMapFailure(state) ==
    [state EXCEPT !.threatMap.loading = FALSE]

\* addNewThreat as it would be without the increment of activeThreats.
addNewThreat_NoActiveCount(state, payload) ==
    [state EXCEPT
        !.threats = <<payload>> \o state.threats,
        !.threatsByCategory = CountKey(@, payload.type),
        !.threatsBySeverity = CountKey(@, payload.severity),
        !.threatsByStatus = CountKey(@, payload.status)]

addNewThreat(state, payload) ==
    [state EXCEPT
        !.threats = <<payload>> \o state.threats,
        !.activeThreats =
            IF payload.status = "active" THEN @ + 1 ELSE @,
        !.threatsByCategory = CountKey(@, payload.type),
        !.threatsBySeverity = CountKey(@, payload.severity),
        !.threatsByStatus = CountKey(@, payload.status)]

(***************************************************************************)
(* Analytics slice (analyticsSlice.ts).                                    *)
(***************************************************************************)

TimeRanges == {"1h", "24h", "7d", "30d", "custom"}

analyticsInitialState ==
    [timeRange |-> "24h",
     customTimeRange |-> [start |-> NULL, end |-> NULL],
     loading |-> FALSE,
     error |-> NULL,
     threatTrends |->
        [data |-> [labels |-> <<>>, datasets |-> <<>>], loading |-> FALSE],
     systemPerformance |->
        [cpu |-> 0, memory |-> 0, network |-> 0, storage |-> 0,
         loading |-> FALSE],
     detectionStats |->
        [totalDetections |-> 0, falsePositives |-> 0, truePositives |-> 0,
         accuracy |-> 0, loading |-> FALSE],
     geographicData |-> [regions |-> <<>>, loading |-> FALSE]]

\* setTimeRange as it would be if it left the custom range in place.
setTimeRange_KeepsCustomRange(state, payload) ==
    [state EXCEPT !.timeRange = payload]

setTimeRange(state, payload) ==
    IF payload # "custom"
    THEN [state EXCEPT !.timeRange = payload,
                       !.customTimeRange = [start |-> NULL, end |-> NULL]]
    ELSE [state EXCEPT !.timeRange = payload]

\* setCustomTimeRange as it would be if it left the range selector alone.
setCustomTimeRange_KeepsTimeRange(state, payload) ==
    [state EXCEPT !.customTimeRange = payload]

setCustomTimeRange(state, payload) ==
    [state EXCEPT !.customTimeRange = payload, !.timeRange = "custom"]

fetchThreatTrendsStart(state) ==
    [state EXCEPT !.threatTrends.loading = TRUE, !.error = NULL]

\* fetchThreatTrendsSuccess as it would be if a response were dropped once
\* the trends hold data.
fetchThreatTrendsSuccess_KeepsFirst(state, payload) ==
    IF state.threatTrends.data # analyticsInitialState.threatTrends.data
    THEN [state EXCEPT !.threatTrends.loading = FALSE]
    ELSE [state EXCEPT !.threatTrends.data = payload,
                       !.threatTrends.loading = FALSE]

fetchThreatTrendsSuccess(state, payload) ==
    [state EXCEPT !.threatTrends.data = payload,
                  !.threatTrends.loading = FALSE]

\* fetchThreatTrendsFailure as it would be if a failure reset the slice.
fetchThreatTrendsFailure_ResetsSlice(state, payload) ==
    [analyticsInitialState EXCEPT !.error = Some(payload)]

fetchThreatTrendsFailure(state, payload) ==
    [state EXCEPT !.threatTrends.loading = FALSE, !.error = Some(payload)]

fetchSystemPerformanceStart(state) ==
    [state EXCEPT !.systemPerformance.loading = TRUE, !.error = NULL]

fetchSystemPerformanceSuccess(state, payload) ==
    [state EXCEPT !.systemPerformance =
        [cpu |-> payload.cpu, memory |-> payload.memory,
         network |-> payload.network, storage |-> payload.storage,
         loading |-> FALSE]]

fetchSystemPerformanceFailure(state, payload) ==
    [state EXCEPT !.systemPerformance.loading = FALSE, !.error = Some(payload)]

fetchDetectionStatsStart(state) ==
    [state EXCEPT !.detectionStats.loading = TRUE, !.error = NULL]

fetchDetectionStatsSuccess(state, payload) ==
    [state EXCEPT !.detectionStats =
        [totalDetections |-> payload.totalDetections,
         falsePositives |-> payload.falsePositives,
         truePositives |-> payload.truePositives,
         accuracy |-> payload.accuracy,
         loading |-> FALSE]]

fetchDetectionStatsFailure(state, payload) ==
    [state EXCEPT !.detectionStats.loading = FALSE, !.error = Some(payload)]

fetchGeographicDataStart(state) ==
    [state EXCEPT !.geographicData.loading = TRUE, !.error = NULL]

fetchGeographicDataSuccess(state, payload) ==
    [state EXCEPT !.geographicData.regions = payload,
                  !.geographicData.loading = FALSE]

fetchGeographicDataFailure(state, payload) ==
    [state EXCEPT !.geographicData.loading = FALSE, !.error = Some(payload)]

(***************************************************************************)
(* Dashboard slice (the dashboardSlice part of alertSlice.ts).             *)
(***************************************************************************)

dashboardInitialState ==
    [data |-> NULL, status |-> "idle", error |-> NULL]

\* builder.addCase(fetchDashboardData.pending, ...)
fetchDashboardDataPending(state) ==
    [state EXCEPT !.status = "loading"]

\* builder.addCase(fetchDashboardData.fulfilled, ...)
fetchDashboardDataFulfilled(state, payload) ==
    [state EXCEPT !.status = "succeeded", !.data = Some(payload)]

\* builder.addCase(fetchDashboardData.rejected, ...); message is
\* action.error.message.
fetchDashboardDataRejected(state, message) ==
    [state EXCEPT !.status = "failed", !.error = Some(message)]

\* The Error of the thunk as it would be if its message left the status
\* out.
ServerError_NoStatus(statusCode) == "Server responded with an error"

\* The Error the thunk throws when response.ok is false.
ServerError(statusCode) == "Server responded with status " \o statusCode

(***************************************************************************)
(* Auth slice (authSlice.ts).                                              *)
(***************************************************************************)

\* { ...base, ...patch }: the fields of patch, and those of base patch
\* does not have.
Merge(base, patch) ==
    [k \in DOMAIN base \cup DOMAIN patch |->
        IF k \in DOMAIN patch THEN patch[k] ELSE base[k]]

MkUser(id, username, email, role, permissions, lastLogin) ==
    [id |-> id, username |-> username, email |-> email, role |-> role,
     permissions |-> permissions, lastLogin |-> lastLogin]

authInitialState ==
    [isAuthenticated |-> FALSE,
     isInitializing |-> TRUE,
     user |-> NULL,
     token |-> NULL,
     error |-> NULL]

loginStart(state) ==
    [state EXCEPT !.isInitializing = TRUE, !.error = NULL]

loginSuccess(state, payload) ==
    [state EXCEPT !.isAuthenticated = TRUE,
                  !.isInitializing = FALSE,
                  !.user = Some(payload.user),
                  !.token = Some(payload.token),
                  !.error = NULL]

loginFailure(state, payload) ==
    [state EXCEPT !.isAuthenticated = FALSE,
                  !.isInitializing = FALSE,
                  !.user = NULL,
                  !.token = NULL,
                  !.error = Some(payload)]

\* logout as it would be if it left the token in place.
logout_KeepsToken(state) ==
    [state EXCEPT !.isAuthenticated = FALSE, !.user = NULL, !.error = NULL]

logout(state) ==
    [state EXCEPT !.isAuthenticated = FALSE,
                  !.user = NULL,
                  !.token = NULL,
                  !.error = NULL]

initializeAuth(state) == [state EXCEPT !.isInitializing = TRUE]

initializeAuthSuccess(state, payload) ==
    [state EXCEPT !.isAuthenticated = TRUE,
                  !.isInitializing = FALSE,
                  !.user = Some(payload.user),
                  !.token = Some(payload.token)]

initializeAuthFailure(state) ==
    [state EXCEPT !.isAuthenticated = FALSE,
                  !.isInitializing = FALSE,
                  !.user = NULL,
                  !.token = NULL]

updateUserProfile(state, payload) ==
    IF state.user # NULL
    THEN [state EXCEPT !.user = Some(Merge(state.user[1], payload))]
    ELSE state

(***************************************************************************)
(* Settings slice (settingsSlice.ts).                                      *)
(***************************************************************************)

settingsInitialState ==
    [theme |-> "dark",
     language |-> "fr",
     notifications |->
        [enabled |-> TRUE, sound |-> TRUE, desktop |-> TRUE,
         criticalOnly |-> FALSE],
     dashboard |->
        [refreshInterval |-> 30,
         defaultView |-> "overview",
         widgets |->
            <<"threatSummary", "recentEvents", "systemStatus", "threatMap">>,
         compactMode |-> FALSE],
     security |->
        [mfaEnabled |-> FALSE, sessionTimeout |-> 30, ipWhitelist |-> <<>>],
     display |->
        [animationsEnabled |-> TRUE, highContrastMode |-> FALSE,
         fontSize |-> "medium", threatColorMode |-> "standard"]]

setTheme(state, payload) == [state EXCEPT !.theme = payload]

setLanguage(state, payload) == [state EXCEPT !.language = payload]

\* updateNotificationSettings as it would be if the payload were merged
\* into the default notifications.
updateNotificationSettings_OntoDefaults(state, payload) ==
    [state EXCEPT
        !.notifications = Merge(settingsInitialState.notifications, payload)]

updateNotificationSettings(state, payload) ==
    [state EXCEPT !.notifications = Merge(state.notifications, payload)]

updateDashboardSettings(state, payload) ==
    [state EXCEPT !.dashboard = Merge(state.dashboard, payload)]

updateSecuritySettings(state, payload) ==
    [state EXCEPT !.security = Merge(state.security, payload)]

updateDisplaySettings(state, payload) ==
    [state EXCEPT !.display = Merge(state.display, payload)]

\* resetSettings as it would be if the theme survived the reset.
resetSettings_KeepsTheme(state) ==
    [settingsInitialState EXCEPT !.theme = state.theme]

resetSettings(state) == settingsInitialState

(***************************************************************************)
(* The store (store/index.ts): every dispatched action is reduced by its   *)
(* slice; the other slices ignore it.                                      *)
(***************************************************************************)

\* Longest threat collection: the longest payload of fetchThreatsSuccess, and
\* the length up to which addNewThreat prepends.
MaxThreats == 2

ThreatA == MkThreat("t1", "malware", "critical", "active")

ThreatB == MkThreat("t2", "phishing", "high", "mitigated")

\* A threat whose free-form category is a name Object.prototype defines.
ThreatC == MkThreat("t2", "constructor", "low", "investigating")

ThreatInputs == {ThreatA, ThreatB, ThreatC}

ThreatIds == {"t1", "t2", "t3"}

\* The payloads of fetchThreatsSuccess: the lists a well-formed response
\* carries, whose ids are pairwise different.
ThreatLists ==
    {l \in UNION {[1..n -> ThreatInputs] : n \in 0..MaxThreats} :
        \A i, j \in 1..Len(l) : i # j => l[i].id # l[j].id}

\* The statuses updateThreatStatus is dispatched with.
StatusInputs == {"active", "resolved"}

SampleThreatLists == {<<ThreatA, ThreatB>>}

ErrorMessages == {"Network Error"}

ThreatMapPayloads ==
    {[nodes |-> <<[id |-> "asset-0"], [id |-> "threat-0"]>>,
      links |-> <<[source |-> "threat-0", target |-> "asset-0"]>>]}

TrendPayloads ==
    {[labels |-> <<"Mon", "Tue">>,
      datasets |-> <<[label |-> "Critical", data |-> <<1, 3>>,
                      backgroundColor |-> "red", borderColor |-> "red"]>>]}

PerformancePayloads ==
    {[cpu |-> 45, memory |-> 60, network |-> 30, storage |-> 70]}

DetectionPayloads ==
    {[totalDetections |-> 200, falsePositives |-> 10, truePositives |-> 190,
      accuracy |-> 95]}

RegionPayloads ==
    {<<[id |-> "eu", name |-> "Europe", count |-> 12,
        coordinates |-> <<48, 2>>]>>}

DashboardPayloads ==
    {[system_status |-> "OK", active_threats |-> 3, analyzed_packets |-> 15000,
      quantum_vault_status |-> "SEALED"]}

HttpErrorCodes == {"500"}

AnalyticsResources ==
    {"threatTrends", "systemPerformance", "detectionStats", "geographicData"}

Resources == {"dashboard", "threats", "threatMap"} \cup AnalyticsResources

StartType(r) ==
    CASE r = "dashboard" -> "dashboard/fetchData/pending"
      [] r = "threats" -> "threat/fetchThreatsStart"
      [] r = "threatMap" -> "threat/fetchThreatMapStart"
      [] r = "threatTrends" -> "analytics/fetchThreatTrendsStart"
      [] r = "systemPerformance" -> "analytics/fetchSystemPerformanceStart"
      [] r = "detectionStats" -> "analytics/fetchDetectionStatsStart"
      [] r = "geographicData" -> "analytics/fetchGeographicDataStart"

SuccessType(r) ==
    CASE r = "dashboard" -> "dashboard/fetchData/fulfilled"
      [] r = "threats" -> "threat/fetchThreatsSuccess"
      [] r = "threatMap" -> "threat/fetchThreatMapSuccess"
      [] r = "threatTrends" -> "analytics/fetchThreatTrendsSuccess"
      [] r = "systemPerformance" -> "analytics/fetchSystemPerformanceSuccess"
      [] r = "detectionStats" -> "analytics/fetchDetectionStatsSuccess"
      [] r = "geographicData" -> "analytics/fetchGeographicDataSuccess"

FailureType(r) ==
    CASE r = "dashboard" -> "dashboard/fetchData/rejected"
      [] r = "threats" -> "threat/fetchThreatsFailure"
      [] r = "threatMap" -> "threat/fetchThreatMapFailure"
      [] r = "threatTrends" -> "analytics/fetchThreatTrendsFailure"
      [] r = "systemPerformance" -> "analytics/fetchSystemPerformanceFailure"
      [] r = "detectionStats" -> "analytics/fetchDetectionStatsFailure"
      [] r = "geographicData" -> "analytics/fetchGeographicDataFailure"

\* The loading indicator of a resource.
LoadingOf(r) ==
    CASE r = "dashboard" -> dashboard.status = "loading"
      [] r = "threats" -> threat.loading
      [] r = "threatMap" -> threat.threatMap.loading
      [] r = "threatTrends" -> analytics.threatTrends.loading
      [] r = "systemPerformance" -> analytics.systemPerformance.loading
      [] r = "detectionStats" -> analytics.detectionStats.loading
      [] r = "geographicData" -> analytics.geographicData.loading

\* The error recorded for a resource. The threat map has no error field and
\* none of its reducers writes one; the analytics sub-resources write the
\* one error field of their slice.
ErrorOf(r) ==
    CASE r = "dashboard" -> dashboard.error
      [] r = "threats" -> threat.error
      [] r = "threatMap" -> NULL
      [] r \in AnalyticsResources -> analytics.error

\* The data stored for a resource.
DataOf(r) ==
    CASE r = "dashboard" -> <<dashboard.data>>
      [] r = "threats" ->
            <<threat.threats, threat.activeThreats, threat.threatsByCategory,
              threat.threatsBySeverity, threat.threatsByStatus>>
      [] r = "threatMap" -> <<threat.threatMap.nodes, threat.threatMap.links>>
      [] r = "threatTrends" -> <<analytics.threatTrends.data>>
      [] r = "systemPerformance" ->
            <<analytics.systemPerformance.cpu,
              analytics.systemPerformance.memory,
              analytics.systemPerformance.network,
              analytics.systemPerformance.storage>>
      [] r = "detectionStats" ->
            <<analytics.detectionStats.totalDetections,
              analytics.detectionStats.falsePositives,
              analytics.detectionStats.truePositives,
              analytics.detectionStats.accuracy>>
      [] r = "geographicData" -> <<analytics.geographicData.regions>>

\* Most resources loading at once.
MaxLoading == 2

\* A fetch of resource r may be started: r is loading already, or fewer than
\* MaxLoading resources are.
CanStart(r) ==
    \/ LoadingOf(r)
    \/ Cardinality({o \in Resources : LoadingOf(o)}) < MaxLoading

Action(type, payload) == [type |-> type, payload |-> payload]

otherThanThreat ==
    <<analytics, dashboard, auth, settings, requests, pages>>

otherThanAnalytics ==
    <<threat, dashboard, auth, settings, requests, pages>>

FetchThreatsStart ==
    /\ CanStart("threats")
    /\ threat' = fetchThreatsStart(threat)
    /\ lastAction' = Action("threat/fetchThreatsStart", NULL)
    /\ UNCHANGED otherThanThreat

FetchThreatsSuccess(p) ==
    /\ threat' = fetchThreatsSuccess(threat, p)
    /\ lastAction' = Action("threat/fetchThreatsSuccess", Some(p))
    /\ UNCHANGED otherThanThreat

FetchThreatsFailure(msg) ==
    /\ threat' = fetchThreatsFailure(threat, msg)
    /\ lastAction' = Action("threat/fetchThreatsFailure", Some(msg))
    /\ UNCHANGED otherThanThreat

SelectThreat(id) ==
    /\ threat' = selectThreat(threat, id)
    /\ lastAction' = Action("threat/selectThreat", Some(id))
    /\ UNCHANGED otherThanThreat

ClearSelectedThreat ==
    /\ threat' = clearSelectedThreat(threat)
    /\ lastAction' = Action("threat/clearSelectedThreat", NULL)
    /\ UNCHANGED otherThanThreat

UpdateThreatStatus(id, status) ==
    /\ threat' = updateThreatStatus(threat, [id |-> id, status |-> status])
    /\ lastAction' = Action("threat/updateThreatStatus",
                          Some([id |-> id, status |-> status]))
    /\ UNCHANGED otherThanThreat

FetchThreatMapStart ==
    /\ CanStart("threatMap")
    /\ threat' = fetchThreatMapStart(threat)
    /\ lastAction' = Action("threat/fetchThreatMapStart", NULL)
    /\ UNCHANGED otherThanThreat

FetchThreatMapSuccess(p) ==
    /\ threat' = fetchThreatMapSuccess(threat, p)
    /\ lastAction' = Action("threat/fetchThreatMapSuccess", Some(p))
    /\ UNCHANGED otherThanThreat

FetchThreatMapFailure ==
    /\ threat' = fetchThreatMapFailure(threat)
    /\ lastAction' = Action("threat/fetchThreatMapFailure", NULL)
    /\ UNCHANGED otherThanThreat

AddNewThreat(p) ==
    /\ Len(threat.threats) < MaxThreats
    /\ threat' = addNewThreat(threat, p)
    /\ lastAction' = Action("threat/addNewThreat", Some(p))
    /\ UNCHANGED otherThanThreat

FetchThreatTrendsStart ==
    /\ CanStart("threatTrends")
    /\ analytics' = fetchThreatTrendsStart(analytics)
    /\ lastAction' = Action("analytics/fetchThreatTrendsStart", NULL)
    /\ UNCHANGED otherThanAnalytics

FetchThreatTrendsSuccess(p) ==
    /\ analytics' = fetchThreatTrendsSuccess(analytics, p)
    /\ lastAction' = Action("analytics/fetchThreatTrendsSuccess", Some(p))
    /\ UNCHANGED otherThanAnalytics

FetchThreatTrendsFailure(msg) ==
    /\ analytics' = fetchThreatTrendsFailure(analytics, msg)
    /\ lastAction' = Action("analytics/fetchThreatTrendsFailure", Some(msg))
    /\ UNCHANGED otherThanAnalytics

FetchSystemPerformanceStart ==
    /\ CanStart("systemPerformance")
    /\ analytics' = fetchSystemPerformanceStart(analytics)
    /\ lastAction' = Action("analytics/fetchSystemPerformanceStart", NULL)
    /\ UNCHANGED otherThanAnalytics

FetchSystemPerformanceSuccess(p) ==
    /\ analytics' = fetchSystemPerformanceSuccess(analytics, p)
    /\ lastAction' = Action("analytics/fetchSystemPerformanceSuccess", Some(p))
    /\ UNCHANGED otherThanAnalytics

FetchSystemPerformanceFailure(msg) ==
    /\ analytics' = fetchSystemPerformanceFailure(analytics, msg)
    /\ lastAction' =
          Action("analytics/fetchSystemPerformanceFailure", Some(msg))
    /\ UNCHANGED otherThanAnalytics

FetchDetectionStatsStart ==
    /\ CanStart("detectionStats")
    /\ analytics' = fetchDetectionStatsStart(analytics)
    /\ lastAction' = Action("analytics/fetchDetectionStatsStart", NULL)
    /\ UNCHANGED otherThanAnalytics

FetchDetectionStatsSuccess(p) ==
    /\ analytics' = fetchDetectionStatsSuccess(analytics, p)
    /\ lastAction' = Action("analytics/fetchDetectionStatsSuccess", Some(p))
    /\ UNCHANGED otherThanAnalytics

FetchDetectionStatsFailure(msg) ==
    /\ analytics' = fetchDetectionStatsFailure(analytics, msg)
    /\ lastAction' = Action("analytics/fetchDetectionStatsFailure", Some(msg))
    /\ UNCHANGED otherThanAnalytics

FetchGeographicDataStart ==
    /\ CanStart("geographicData")
    /\ analytics' = fetchGeographicDataStart(analytics)
    /\ lastAction' = Action("analytics/fetchGeographicDataStart", NULL)
    /\ UNCHANGED otherThanAnalytics

FetchGeographicDataSuccess(p) ==
    /\ analytics' = fetchGeographicDataSuccess(analytics, p)
    /\ lastAction' = Action("analytics/fetchGeographicDataSuccess", Some(p))
    /\ UNCHANGED otherThanAnalytics

FetchGeographicDataFailure(msg) ==
    /\ analytics' = fetchGeographicDataFailure(analytics, msg)
    /\ lastAction' = Action("analytics/fetchGeographicDataFailure", Some(msg))
    /\ UNCHANGED otherThanAnalytics

otherThanDashboard ==
    <<threat, analytics, auth, settings, requests, pages>>

\* dispatch(fetchDashboardData()) while no request is under way: the thunk
\* dispatches pending and issues the request.
FetchDashboardData ==
    /\ dashboard.status # "loading"
    /\ CanStart("dashboard")
    /\ dashboard' = fetchDashboardDataPending(dashboard)
    /\ lastAction' = Action("dashboard/fetchData/pending", NULL)
    /\ UNCHANGED otherThanDashboard

\* The response arrives with response.ok: the thunk returns the parsed body
\* and dispatches fulfilled.
DashboardResponseOk(body) ==
    /\ dashboard.status = "loading"
    /\ dashboard' = fetchDashboardDataFulfilled(dashboard, body)
    /\ lastAction' = Action("dashboard/fetchData/fulfilled", Some(body))
    /\ UNCHANGED otherThanDashboard

\* The response arrives without response.ok: the thunk throws and dispatches
\* rejected with the message of the Error.
DashboardResponseNotOk(statusCode) ==
    /\ dashboard.status = "loading"
    /\ dashboard' =
          fetchDashboardDataRejected(dashboard, ServerError(statusCode))
    /\ lastAction' = Action("dashboard/fetchData/rejected",
                          Some(ServerError(statusCode)))
    /\ UNCHANGED otherThanDashboard

\* The responses the requests of the threat trends and of the threats are
\* answered with.
TrendResponses ==
    TrendPayloads \cup
        {[labels |-> <<"Wed">>,
          datasets |-> <<[label |-> "Critical", data |-> <<4>>,
                          backgroundColor |-> "red", borderColor |-> "red"]>>]}

ThreatResponses == {<<ThreatA, ThreatB>>, <<ThreatB>>}

\* Most requests issued.
MaxRequests == 3

Request(resource, payload) ==
    [resource |-> resource, payload |-> payload, response |-> 0]

\* The requests that are in flight: issued and not answered.
InFlight == {i \in 1..Len(requests) : requests[i].response = 0}

\* The number of responses delivered.
Delivered == Len(requests) - Cardinality(InFlight)

otherThanThreatRequest == <<analytics, dashboard, auth, settings, pages>>

otherThanAnalyticsRequest == <<threat, dashboard, auth, settings, pages>>

\* A client requests the threats: it dispatches the start action; the
\* response the request will get is p.
RequestThreats(p) ==
    /\ Len(requests) < MaxRequests
    /\ threat' = fetchThreatsStart(threat)
    /\ lastAction' = Action("threat/fetchThreatsStart", NULL)
    /\ requests' = Append(requests, Request("threats", p))
    /\ UNCHANGED otherThanThreatRequest

\* The response of request i arrives, whatever other requests are in
\* flight: the client dispatches the success action with it.
RespondThreats(i) ==
    /\ i \in InFlight
    /\ requests[i].resource = "threats"
    /\ threat' = fetchThreatsSuccess(threat, requests[i].payload)
    /\ lastAction' =
          Action("threat/fetchThreatsSuccess", Some(requests[i].payload))
    /\ requests' = [requests EXCEPT ![i].response = Delivered + 1]
    /\ UNCHANGED otherThanThreatRequest

RequestThreatTrends(p) ==
    /\ Len(requests) < MaxRequests
    /\ analytics' = fetchThreatTrendsStart(analytics)
    /\ lastAction' = Action("analytics/fetchThreatTrendsStart", NULL)
    /\ requests' = Append(requests, Request("threatTrends", p))
    /\ UNCHANGED otherThanAnalyticsRequest

RespondThreatTrends(i) ==
    /\ i \in InFlight
    /\ requests[i].resource = "threatTrends"
    /\ analytics' = fetchThreatTrendsSuccess(analytics, requests[i].payload)
    /\ lastAction' = Action("analytics/fetchThreatTrendsSuccess",
                          Some(requests[i].payload))
    /\ requests' = [requests EXCEPT ![i].response = Delivered + 1]
    /\ UNCHANGED otherThanAnalyticsRequest

UserA ==
    MkUser("u1", "alice", "alice@icarus.io", "admin", <<"read", "write">>,
           "2024-01-01T00:00:00Z")

UserB ==
    MkUser("u2", "bob", "bob@icarus.io", "analyst", <<"read">>,
           "2024-02-01T00:00:00Z")

\* The payloads of loginSuccess and initializeAuthSuccess.
Credentials ==
    {[user |-> UserA, token |-> "token-1"],
     [user |-> UserB, token |-> "token-2"]}

\* The payloads of updateUserProfile: some of the fields of a User.
ProfilePatches ==
    {[email |-> "alice@example.org"],
     [role |-> "viewer", permissions |-> <<>>],
     [lastLogin |-> "2024-03-01T00:00:00Z"]}

AuthErrors == {"Invalid credentials", "Network Error"}

otherThanAuth ==
    <<threat, analytics, dashboard, settings, requests, pages>>

LoginStart ==
    /\ auth' = loginStart(auth)
    /\ lastAction' = Action("auth/loginStart", NULL)
    /\ UNCHANGED otherThanAuth

LoginSuccess(p) ==
    /\ auth' = loginSuccess(auth, p)
    /\ lastAction' = Action("auth/loginSuccess", Some(p))
    /\ UNCHANGED otherThanAuth

LoginFailure(msg) ==
    /\ auth' = loginFailure(auth, msg)
    /\ lastAction' = Action("auth/loginFailure", Some(msg))
    /\ UNCHANGED otherThanAuth

Logout ==
    /\ auth' = logout(auth)
    /\ lastAction' = Action("auth/logout", NULL)
    /\ UNCHANGED otherThanAuth

InitializeAuth ==
    /\ auth' = initializeAuth(auth)
    /\ lastAction' = Action("auth/initializeAuth", NULL)
    /\ UNCHANGED otherThanAuth

InitializeAuthSuccess(p) ==
    /\ auth' = initializeAuthSuccess(auth, p)
    /\ lastAction' = Action("auth/initializeAuthSuccess", Some(p))
    /\ UNCHANGED otherThanAuth

InitializeAuthFailure ==
    /\ auth' = initializeAuthFailure(auth)
    /\ lastAction' = Action("auth/initializeAuthFailure", NULL)
    /\ UNCHANGED otherThanAuth

UpdateUserProfile(p) ==
    /\ auth' = updateUserProfile(auth, p)
    /\ lastAction' = Action("auth/updateUserProfile", Some(p))
    /\ UNCHANGED otherThanAuth

Themes == {"dark", "light"}

Languages == {"fr", "en"}

\* The payloads of the four sub-tree updates: some of the fields of the
\* sub-tree.
NotificationPatches ==
    {[sound |-> FALSE], [enabled |-> FALSE, criticalOnly |-> TRUE]}

DashboardPatches ==
    {[refreshInterval |-> 60],
     [widgets |-> <<"threatMap">>, compactMode |-> TRUE]}

SecurityPatches ==
    {[mfaEnabled |-> TRUE],
     [sessionTimeout |-> 15, ipWhitelist |-> <<"10.0.0.1">>]}

DisplayPatches ==
    {[fontSize |-> "large"],
     [highContrastMode |-> TRUE, threatColorMode |-> "colorblind"]}

otherThanSettings ==
    <<threat, analytics, dashboard, auth, requests, pages>>

SetTheme(p) ==
    /\ settings' = setTheme(settings, p)
    /\ lastAction' = Action("settings/setTheme", Some(p))
    /\ UNCHANGED otherThanSettings

SetLanguage(p) ==
    /\ settings' = setLanguage(settings, p)
    /\ lastAction' = Action("settings/setLanguage", Some(p))
    /\ UNCHANGED otherThanSettings

UpdateNotificationSettings(p) ==
    /\ settings' = updateNotificationSettings(settings, p)
    /\ lastAction' = Action("settings/updateNotificationSettings", Some(p))
    /\ UNCHANGED otherThanSettings

UpdateDashboardSettings(p) ==
    /\ settings' = updateDashboardSettings(settings, p)
    /\ lastAction' = Action("settings/updateDashboardSettings", Some(p))
    /\ UNCHANGED otherThanSettings

UpdateSecuritySettings(p) ==
    /\ settings' = updateSecuritySettings(settings, p)
    /\ lastAction' = Action("settings/updateSecuritySettings", Some(p))
    /\ UNCHANGED otherThanSettings

UpdateDisplaySettings(p) ==
    /\ settings' = updateDisplaySettings(settings, p)
    /\ lastAction' = Action("settings/updateDisplaySettings", Some(p))
    /\ UNCHANGED otherThanSettings

ResetSettings ==
    /\ settings' = resetSettings(settings)
    /\ lastAction' = Action("settings/resetSettings", NULL)
    /\ UNCHANGED otherThanSettings

\* The payloads of setCustomTimeRange: start and end are each a date string
\* or null.
CustomTimeRanges ==
    {[start |-> st, end |-> en] :
        st \in {NULL, Some("2024-01-01")}, en \in {NULL, Some("2024-01-31")}}

SetTimeRange(p) ==
    /\ analytics' = setTimeRange(analytics, p)
    /\ lastAction' = Action("analytics/setTimeRange", Some(p))
    /\ UNCHANGED otherThanAnalytics

SetCustomTimeRange(p) ==
    /\ analytics' = setCustomTimeRange(analytics, p)
    /\ lastAction' = Action("analytics/setCustomTimeRange", Some(p))
    /\ UNCHANGED otherThanAnalytics

(***************************************************************************)
(* The pages (ui/pages): components that select from the store and         *)
(* dispatch from their effects.                                            *)
(***************************************************************************)

\* No page is mounted. deps holds the dependency values the page's effect
\* last ran with, null before its first run; timers holds what the pending
\* setTimeout callbacks of the page have captured, in the order they were
\* armed, which is the order they fire in.
pagesInitialState ==
    [dashboard |-> [mounted |-> FALSE, deps |-> NULL],
     analytics |-> [mounted |-> FALSE, deps |-> NULL, timers |-> <<>>],
     threatMap |->
        [mounted |-> FALSE, deps |-> NULL, timers |-> <<>>, hung |-> FALSE]]

\* Math.random(): the n-th value of a run of the generator that started
\* from seed, in units of 1/RandomDenominator, so a value of [0, 1).
RandomDenominator == 21

RandomStep == 5

Rand(seed, n) == (seed + n * RandomStep) % RandomDenominator

\* Math.floor(r * k) for the random value r.
Scaled(r, k) == (r * k) \div RandomDenominator

\* n.toString().padStart(2, '0')
PadStart2(n) == IF n < 10 THEN "0" \o ToString(n) ELSE ToString(n)

\* The switch on timeRange as it would be if '1h' had a point per minute.
TrendPoints_PerMinute(timeRange) ==
    CASE timeRange = "1h" -> 60
      [] timeRange = "24h" -> 24
      [] timeRange = "7d" -> 7
      [] OTHER -> 30

\* points, as the switch on timeRange sets it.
TrendPoints(timeRange) ==
    CASE timeRange = "1h" -> 12
      [] timeRange = "24h" -> 24
      [] timeRange = "7d" -> 7
      [] OTHER -> 30

days == <<"Lun", "Mar", "Mer", "Jeu", "Ven", "Sam", "Dim">>

\* The label the switch pushes in iteration i of its loop (i from 0, from 1
\* for '30d' and the default); month is new Date().getMonth() + 1.
TrendLabel(timeRange, i, month) ==
    CASE timeRange = "1h" ->
            ToString((i * 5) \div 60) \o ":" \o PadStart2((i * 5) % 60)
      [] timeRange = "24h" -> ToString(i) \o ":00"
      [] timeRange = "7d" -> IF i < Len(days) THEN days[i + 1] ELSE "undefined"
      [] OTHER -> ToString(i) \o "/" \o ToString(month)

TrendLabels(timeRange, month) ==
    [n \in 1..TrendPoints(timeRange) |->
        TrendLabel(timeRange,
                   IF timeRange \in {"1h", "24h", "7d"} THEN n - 1 ELSE n,
                   month)]

\* The four series: iteration i draws the critical, high, medium and low
\* value, in this order.
criticalData(points, seed) ==
    [n \in 1..points |-> Scaled(Rand(seed, 4 * (n - 1)), 5)]

highData(points, seed) ==
    [n \in 1..points |-> Scaled(Rand(seed, 4 * (n - 1) + 1), 10) + 2]

mediumData(points, seed) ==
    [n \in 1..points |-> Scaled(Rand(seed, 4 * (n - 1) + 2), 15) + 5]

lowData(points, seed) ==
    [n \in 1..points |-> Scaled(Rand(seed, 4 * (n - 1) + 3), 20) + 10]

Dataset(label, data, color) ==
    [label |-> label, data |-> data, backgroundColor |-> color,
     borderColor |-> color]

\* generateMockThreatTrendsData() in a render whose timeRange is timeRange
\* (the accented labels are written without their accents).
generateMockThreatTrendsData(timeRange, seed, month) ==
    LET points == TrendPoints(timeRange)
    IN  [labels |-> TrendLabels(timeRange, month),
         datasets |->
            <<Dataset("Critique", criticalData(points, seed),
                      "theme.palette.threat.critical"),
              Dataset("Eleve", highData(points, seed),
                      "theme.palette.threat.high"),
              Dataset("Moyen", mediumData(points, seed),
                      "theme.palette.threat.medium"),
              Dataset("Faible", lowData(points, seed),
                      "theme.palette.threat.low")>>]

\* generateMockDetectionStats(): the total is 500..1499, the true positives
\* 85 to 95 percent of it; accuracy is kept in percent, rounded down.
generateMockDetectionStats(seed) ==
    LET totalDetections == Scaled(Rand(seed, 0), 1000) + 500
        truePositives ==
            (totalDetections *
                (85 * RandomDenominator + Rand(seed, 1) * 10))
                    \div (100 * RandomDenominator)
    IN  [totalDetections |-> totalDetections,
         truePositives |-> truePositives,
         falsePositives |-> totalDetections - truePositives,
         accuracy |-> (truePositives * 100) \div totalDetections]

\* Response.ok: the status is in the range 200-299.
HttpOk(status) == status \in 200..299

DashboardA ==
    [system_status |-> "OK", active_threats |-> 3, analyzed_packets |-> 15000,
     quantum_vault_status |-> "SEALED"]

DashboardB ==
    [system_status |-> "DEGRADED", active_threats |-> 7,
     analyzed_packets |-> 16000, quantum_vault_status |-> "SEALED"]

\* The responses to GET /api/dashboard: a status, and the body as
\* response.json() parses it, null when it is no JSON.
HttpResponses ==
    {[status |-> 200, body |-> Some(DashboardA)],
     [status |-> 201, body |-> Some(DashboardB)],
     [status |-> 200, body |-> NULL],
     [status |-> 404, body |-> NULL],
     [status |-> 500, body |-> Some(DashboardB)]}

\* The message of the SyntaxError response.json() rejects with.
JsonError == "Unexpected end of JSON input"

otherThanDashboardRequest == <<threat, analytics, auth, settings, pages>>

otherThanPages ==
    <<threat, analytics, dashboard, auth, settings, lastAction, requests>>

otherThanDashboardPage == <<threat, analytics, auth, settings>>

\* A caller dispatches fetchDashboardData(): the thunk dispatches pending
\* and issues the request, which response will answer.
DispatchFetchDashboardData(response) ==
    /\ Len(requests) < MaxRequests
    /\ dashboard' = fetchDashboardDataPending(dashboard)
    /\ lastAction' = Action("dashboard/fetchData/pending", NULL)
    /\ requests' = Append(requests, Request("dashboard", response))
    /\ UNCHANGED otherThanDashboardRequest

\* The payload creator of the thunk runs on with the response of request
\* i: it throws when the response is not ok, before it touches the body,
\* returns the parsed body otherwise, and throws when the body does not
\* parse; the thunk dispatches rejected or fulfilled accordingly.
SettleFetchDashboardData(i) ==
    /\ i \in InFlight
    /\ requests[i].resource = "dashboard"
    /\ LET response == requests[i].payload
           message ==
               IF ~HttpOk(response.status)
               THEN ServerError(ToString(response.status))
               ELSE JsonError
       IN  IF HttpOk(response.status) /\ response.body # NULL
           THEN /\ dashboard' =
                      fetchDashboardDataFulfilled(dashboard, response.body[1])
                /\ lastAction' =
                      Action("dashboard/fetchData/fulfilled", response.body)
           ELSE /\ dashboard' = fetchDashboardDataRejected(dashboard, message)
                /\ lastAction' =
                      Action("dashboard/fetchData/rejected", Some(message))
    /\ requests' = [requests EXCEPT ![i].response = Delivered + 1]
    /\ UNCHANGED otherThanDashboardRequest

\* The Dashboard page is mounted; its effect has not run yet.
DashboardMount ==
    /\ ~pages.dashboard.mounted
    /\ pages' = [pages EXCEPT !.dashboard = [mounted |-> TRUE, deps |-> NULL]]
    /\ UNCHANGED otherThanPages

DashboardUnmount ==
    /\ pages.dashboard.mounted
    /\ pages' = [pages EXCEPT !.dashboard = [mounted |-> FALSE, deps |-> NULL]]
    /\ UNCHANGED otherThanPages

\* The effect of the Dashboard page as it would be if it fetched again
\* after a failure.
DashboardEffect_RetriesFailed(response) ==
    /\ pages.dashboard.mounted
    /\ pages.dashboard.deps # Some(dashboard.status)
    /\ pages' = [pages EXCEPT !.dashboard.deps = Some(dashboard.status)]
    /\ IF dashboard.status \in {"idle", "failed"}
       THEN /\ Len(requests) < MaxRequests
            /\ dashboard' = fetchDashboardDataPending(dashboard)
            /\ lastAction' = Action("dashboard/fetchData/pending", NULL)
            /\ requests' = Append(requests, Request("dashboard", response))
       ELSE UNCHANGED <<dashboard, lastAction, requests>>
    /\ UNCHANGED otherThanDashboardPage

\* The effect of the Dashboard page runs, after the mount and after every
\* render in which status differs from the status of its last run: it
\* dispatches fetchDashboardData() when status is 'idle'.
DashboardEffect(response) ==
    /\ pages.dashboard.mounted
    /\ pages.dashboard.deps # Some(dashboard.status)
    /\ pages' = [pages EXCEPT !.dashboard.deps = Some(dashboard.status)]
    /\ IF dashboard.status = "idle"
       THEN /\ Len(requests) < MaxRequests
            /\ dashboard' = fetchDashboardDataPending(dashboard)
            /\ lastAction' = Action("dashboard/fetchData/pending", NULL)
            /\ requests' = Append(requests, Request("dashboard", response))
       ELSE UNCHANGED <<dashboard, lastAction, requests>>
    /\ UNCHANGED otherThanDashboardPage

assetTypes ==
    <<"Server", "Database", "Firewall", "Router", "Endpoint", "Cloud">>

assetCount == 15

threatTypes ==
    <<"Malware", "DDoS", "Phishing", "Intrusion", "DataLeak", "Ransomware">>

threatCount == 8

threatSeverities == <<"critical", "high", "medium", "low">>

\* The asset node of iteration i, which draws first its type, then its
\* value; fractional values are kept rounded down.
AssetNode(seed, i) ==
    LET type == assetTypes[Scaled(Rand(seed, 2 * i), Len(assetTypes)) + 1]
    IN  [id |-> "asset-" \o ToString(i),
         name |-> type \o "-" \o ToString(i),
         type |-> "asset",
         assetType |-> type,
         value |-> Scaled(Rand(seed, 2 * i + 1), 20) + 10,
         color |-> "theme.palette.info.main"]

\* The threat node of iteration i, whose draws start with draw n.
ThreatNode(seed, n, i) ==
    LET type == threatTypes[Scaled(Rand(seed, n), Len(threatTypes)) + 1]
        severity ==
            threatSeverities[
                Scaled(Rand(seed, n + 1), Len(threatSeverities)) + 1]
    IN  [id |-> "threat-" \o ToString(i),
         name |-> type \o "-" \o ToString(i),
         type |-> "threat",
         threatType |-> type,
         severity |-> severity,
         value |-> Scaled(Rand(seed, n + 2), 15) + 5,
         color |-> "theme.palette.threat." \o severity]

\* targetAssets as it would be if a threat had up to four targets.
TargetAssets_UpToFour(r) == Scaled(r, 4) + 1

\* const targetAssets = Math.floor(Math.random() * 3) + 1
TargetAssets(r) == Scaled(r, 3) + 1

\* do { targetIndex = ... } while (usedTargets.has(targetIndex)), from draw
\* n on. The loop hangs when a whole period of the generator holds no index
\* outside usedTargets.
RECURSIVE DrawTarget(_, _, _, _)
DrawTarget(seed, n, usedTargets, period) ==
    LET targetIndex == Scaled(Rand(seed, n), assetCount)
    IN  IF targetIndex \notin usedTargets
        THEN [n |-> n + 1, targetIndex |-> targetIndex, hung |-> FALSE]
        ELSE IF period = 0
             THEN [n |-> n + 1, targetIndex |-> targetIndex, hung |-> TRUE]
             ELSE DrawTarget(seed, n + 1, usedTargets, period - 1)

\* for (let j = 0; j < targetAssets; j++): the links of threat i.
RECURSIVE ThreatLinks(_, _, _, _, _, _, _, _)
ThreatLinks(seed, n, i, j, targetAssets, usedTargets, links, color) ==
    IF j >= targetAssets
    THEN [n |-> n, links |-> links, hung |-> FALSE]
    ELSE LET drawn == DrawTarget(seed, n, usedTargets, RandomDenominator)
         IN  IF drawn.hung
             THEN [n |-> drawn.n, links |-> links, hung |-> TRUE]
             ELSE ThreatLinks(
                    seed, drawn.n + 1, i, j + 1, targetAssets,
                    usedTargets \cup {drawn.targetIndex},
                    Append(links,
                           [source |-> "threat-" \o ToString(i),
                            target |->
                                "asset-" \o ToString(drawn.targetIndex),
                            value |-> Scaled(Rand(seed, drawn.n), 5) + 1,
                            color |-> color]),
                    color)

\* for (let i = 0; i < threatCount; i++): the threat nodes and their links.
RECURSIVE Threats(_, _, _, _, _)
Threats(seed, n, i, nodes, links) ==
    IF i >= threatCount
    THEN [n |-> n, nodes |-> nodes, links |-> links, hung |-> FALSE]
    ELSE LET node == ThreatNode(seed, n, i)
             linked ==
                ThreatLinks(seed, n + 4, i, 0,
                            TargetAssets(Rand(seed, n + 3)), {}, links,
                            node.color)
         IN  IF linked.hung
             THEN [n |-> linked.n, nodes |-> Append(nodes, node),
                   links |-> linked.links, hung |-> TRUE]
             ELSE Threats(seed, linked.n, i + 1, Append(nodes, node),
                          linked.links)

\* for (let i = 0; i < assetCount - 1; i++): the links between assets.
RECURSIVE AssetLinks(_, _, _, _)
AssetLinks(seed, n, i, links) ==
    IF i >= assetCount - 1
    THEN links
    ELSE LET ring ==
                Append(links,
                       [source |-> "asset-" \o ToString(i),
                        target |->
                            "asset-" \o ToString((i + 1) % assetCount),
                        value |-> 1,
                        color |-> "theme.palette.primary.main"])
             randomTarget == Scaled(Rand(seed, n + 1), assetCount)
         IN  IF Rand(seed, n) * 10 > 7 * RandomDenominator
             THEN AssetLinks(
                    seed, n + 2, i + 1,
                    IF randomTarget # i
                    THEN Append(ring,
                                [source |-> "asset-" \o ToString(i),
                                 target |->
                                    "asset-" \o ToString(randomTarget),
                                 value |-> 1,
                                 color |-> "theme.palette.primary.main"])
                    ELSE ring)
             ELSE AssetLinks(seed, n + 1, i + 1, ring)

\* generateMockThreatMapData(); hung when a selection loop does not end.
generateMockThreatMapData(seed) ==
    LET assets == [k \in 1..assetCount |-> AssetNode(seed, k - 1)]
        threats == Threats(seed, 2 * assetCount, 0, assets, <<>>)
    IN  IF threats.hung
        THEN [nodes |-> threats.nodes, links |-> threats.links, hung |-> TRUE]
        ELSE [nodes |-> threats.nodes,
              links |-> AssetLinks(seed, threats.n, 0, threats.links),
              hung |-> FALSE]

\* Most timers of one page pending at once.
MaxTimers == 2

\* The seeds of the random generator, and the months of the clock.
Seeds == {0, 11}

Months == {1, 12}

\* The ranges the buttons of the Analytics page select.
PresetTimeRanges == {"1h", "24h", "7d", "30d"}

otherThanAnalyticsPage == <<threat, dashboard, auth, settings, requests>>

AnalyticsMount ==
    /\ ~pages.analytics.mounted
    /\ pages' = [pages EXCEPT !.analytics.mounted = TRUE,
                              !.analytics.deps = NULL]
    /\ UNCHANGED otherThanPages

\* The timers the page has armed stay armed: the effect has no cleanup.
AnalyticsUnmount ==
    /\ pages.analytics.mounted
    /\ pages' = [pages EXCEPT !.analytics.mounted = FALSE,
                              !.analytics.deps = NULL]
    /\ UNCHANGED otherThanPages

\* The effect of the Analytics page runs, after the mount and after every
\* render in which timeRange differs from the timeRange of its last run:
\* it dispatches the two start actions and arms a timer of 1000 ms whose
\* callback holds the timeRange of this render.
AnalyticsEffect ==
    /\ pages.analytics.mounted
    /\ pages.analytics.deps # Some(analytics.timeRange)
    /\ Len(pages.analytics.timers) < MaxTimers
    /\ analytics' =
          fetchDetectionStatsStart(fetchThreatTrendsStart(analytics))
    /\ lastAction' = Action("analytics/fetchDetectionStatsStart", NULL)
    /\ pages' = [pages EXCEPT
                    !.analytics.deps = Some(analytics.timeRange),
                    !.analytics.timers = Append(@, analytics.timeRange)]
    /\ UNCHANGED otherThanAnalyticsPage

\* The oldest timer of the Analytics page fires: its callback generates
\* the trends for the timeRange it holds and the detection statistics, and
\* dispatches the two success actions.
AnalyticsTimer(seed, month) ==
    /\ pages.analytics.timers # <<>>
    /\ LET timeRange == Head(pages.analytics.timers)
           mockThreatTrendsData ==
               generateMockThreatTrendsData(timeRange, seed, month)
           mockDetectionStats == generateMockDetectionStats(seed)
       IN  /\ analytics' =
                 fetchDetectionStatsSuccess(
                     fetchThreatTrendsSuccess(analytics, mockThreatTrendsData),
                     mockDetectionStats)
           /\ lastAction' = Action("analytics/fetchDetectionStatsSuccess",
                                   Some(mockDetectionStats))
    /\ pages' = [pages EXCEPT !.analytics.timers = Tail(@)]
    /\ UNCHANGED otherThanAnalyticsPage

\* A click on one of the range buttons of the mounted page.
HandleTimeRangeChange(range) ==
    /\ pages.analytics.mounted
    /\ analytics' = setTimeRange(analytics, range)
    /\ lastAction' = Action("analytics/setTimeRange", Some(range))
    /\ UNCHANGED otherThanAnalytics

\* The seeds of the random generator the threat map is generated from.
MapSeeds == {0, 2, 5, 7, 9, 11, 14, 16, 18}

\* const mockData = generateMockThreatMapData(), for each seed.
mockThreatMapData ==
    [seed \in MapSeeds |-> generateMockThreatMapData(seed)]

otherThanThreatPage == <<analytics, dashboard, auth, settings, requests>>

ThreatMapMount ==
    /\ ~pages.threatMap.mounted
    /\ pages' = [pages EXCEPT !.threatMap.mounted = TRUE,
                              !.threatMap.deps = NULL]
    /\ UNCHANGED otherThanPages

\* The timers the page has armed stay armed: the cleanup of the effect
\* removes the resize listener only.
ThreatMapUnmount ==
    /\ pages.threatMap.mounted
    /\ pages' = [pages EXCEPT !.threatMap.mounted = FALSE,
                              !.threatMap.deps = NULL]
    /\ UNCHANGED otherThanPages

\* The effect of the ThreatMap page runs, once after each mount: it
\* dispatches fetchThreatMapStart() and arms a timer of 1500 ms.
\* The effect as it would be if it dispatched the start action without
\* arming the timer.
ThreatMapEffect_ArmsNoTimer ==
    /\ pages.threatMap.mounted
    /\ pages.threatMap.deps = NULL
    /\ Len(pages.threatMap.timers) < MaxTimers
    /\ threat' = fetchThreatMapStart(threat)
    /\ lastAction' = Action("threat/fetchThreatMapStart", NULL)
    /\ pages' = [pages EXCEPT !.threatMap.deps = Some("dispatch")]
    /\ UNCHANGED otherThanThreatPage

ThreatMapEffect ==
    /\ pages.threatMap.mounted
    /\ pages.threatMap.deps = NULL
    /\ Len(pages.threatMap.timers) < MaxTimers
    /\ threat' = fetchThreatMapStart(threat)
    /\ lastAction' = Action("threat/fetchThreatMapStart", NULL)
    /\ pages' = [pages EXCEPT
                    !.threatMap.deps = Some("dispatch"),
                    !.threatMap.timers = Append(@, "fetchThreatMapSuccess")]
    /\ UNCHANGED otherThanThreatPage

\* The oldest timer of the ThreatMap page fires: its callback generates
\* the graph and dispatches fetchThreatMapSuccess with it; when the
\* generation does not end, the callback never returns.
ThreatMapTimer(seed) ==
    /\ pages.threatMap.timers # <<>>
    /\ ~pages.threatMap.hung
    /\ LET mockData == mockThreatMapData[seed]
           payload == [nodes |-> mockData.nodes, links |-> mockData.links]
       IN  IF mockData.hung
           THEN /\ pages' = [pages EXCEPT !.threatMap.hung = TRUE]
                /\ UNCHANGED <<threat, lastAction>>
           ELSE /\ pages' = [pages EXCEPT !.threatMap.timers = Tail(@)]
                /\ threat' = fetchThreatMapSuccess(threat, payload)
                /\ lastAction' =
                      Action("threat/fetchThreatMapSuccess", Some(payload))
    /\ UNCHANGED otherThanThreatPage

Init ==
    /\ threat = threatInitialState
    /\ analytics = analyticsInitialState
    /\ dashboard = dashboardInitialState
    /\ auth = authInitialState
    /\ settings = settingsInitialState
    /\ lastAction = Action("@@INIT", NULL)
    /\ requests = <<>>
    /\ pages = pagesInitialState

\* The fetch lifecycles of the seven resources.
Next ==
    \/ FetchThreatsStart
    \/ \E p \in SampleThreatLists : FetchThreatsSuccess(p)
    \/ \E msg \in ErrorMessages : FetchThreatsFailure(msg)
    \/ FetchThreatMapStart
    \/ \E p \in ThreatMapPayloads : FetchThreatMapSuccess(p)
    \/ FetchThreatMapFailure
    \/ FetchThreatTrendsStart
    \/ \E p \in TrendPayloads : FetchThreatTrendsSuccess(p)
    \/ \E msg \in ErrorMessages : FetchThreatTrendsFailure(msg)
    \/ FetchSystemPerformanceStart
    \/ \E p \in PerformancePayloads : FetchSystemPerformanceSuccess(p)
    \/ \E msg \in ErrorMessages : FetchSystemPerformanceFailure(msg)
    \/ FetchDetectionStatsStart
    \/ \E p \in DetectionPayloads : FetchDetectionStatsSuccess(p)
    \/ \E msg \in ErrorMessages : FetchDetectionStatsFailure(msg)
    \/ FetchGeographicDataStart
    \/ \E p \in RegionPayloads : FetchGeographicDataSuccess(p)
    \/ \E msg \in ErrorMessages : FetchGeographicDataFailure(msg)
    \/ FetchDashboardData
    \/ \E body \in DashboardPayloads : DashboardResponseOk(body)
    \/ \E code \in HttpErrorCodes : DashboardResponseNotOk(code)

Spec == Init /\ [][Next]_vars

\* The actions on the threat collection and the selection.
NextThreat ==
    \/ FetchThreatsStart
    \/ \E p \in ThreatLists : FetchThreatsSuccess(p)
    \/ \E msg \in ErrorMessages : FetchThreatsFailure(msg)
    \/ \E id \in ThreatIds : SelectThreat(id)
    \/ ClearSelectedThreat
    \/ \E id \in ThreatIds, status \in StatusInputs :
          UpdateThreatStatus(id, status)
    \/ \E p \in ThreatInputs : AddNewThreat(p)

SpecThreat == Init /\ [][NextThreat]_vars

\* The actions of the threat slice: those of the collection and the
\* selection, and the fetch of the threat map.
NextThreatSlice ==
    \/ FetchThreatsStart
    \/ \E p \in {<<>>} \cup SampleThreatLists : FetchThreatsSuccess(p)
    \/ \E msg \in ErrorMessages : FetchThreatsFailure(msg)
    \/ \E id \in {"t1"} : SelectThreat(id)
    \/ ClearSelectedThreat
    \/ \E id \in ThreatIds : UpdateThreatStatus(id, "resolved")
    \/ FetchThreatMapStart
    \/ \E p \in ThreatMapPayloads : FetchThreatMapSuccess(p)
    \/ FetchThreatMapFailure
    \/ \E p \in {ThreatA, ThreatC} : AddNewThreat(p)

SpecThreatSlice == Init /\ [][NextThreatSlice]_vars

\* The actions of the auth slice.
NextAuth ==
    \/ LoginStart
    \/ \E p \in Credentials : LoginSuccess(p)
    \/ \E msg \in AuthErrors : LoginFailure(msg)
    \/ Logout
    \/ InitializeAuth
    \/ \E p \in Credentials : InitializeAuthSuccess(p)
    \/ InitializeAuthFailure
    \/ \E p \in ProfilePatches : UpdateUserProfile(p)

SpecAuth == Init /\ [][NextAuth]_vars

\* The actions of the settings slice.
NextSettings ==
    \/ \E p \in Themes : SetTheme(p)
    \/ \E p \in Languages : SetLanguage(p)
    \/ \E p \in NotificationPatches : UpdateNotificationSettings(p)
    \/ \E p \in DashboardPatches : UpdateDashboardSettings(p)
    \/ \E p \in SecurityPatches : UpdateSecuritySettings(p)
    \/ \E p \in DisplayPatches : UpdateDisplaySettings(p)
    \/ ResetSettings

SpecSettings == Init /\ [][NextSettings]_vars

\* The time range of the analytics slice and the two fetches the Analytics
\* page runs for it.
NextTimeRange ==
    \/ \E p \in TimeRanges : SetTimeRange(p)
    \/ \E p \in CustomTimeRanges : SetCustomTimeRange(p)
    \/ FetchThreatTrendsStart
    \/ \E p \in TrendPayloads : FetchThreatTrendsSuccess(p)
    \/ \E msg \in ErrorMessages : FetchThreatTrendsFailure(msg)
    \/ FetchDetectionStatsStart
    \/ \E p \in DetectionPayloads : FetchDetectionStatsSuccess(p)
    \/ \E msg \in ErrorMessages : FetchDetectionStatsFailure(msg)

SpecTimeRange == Init /\ [][NextTimeRange]_vars

\* The ThreatMap page.
NextThreatMapPage ==
    \/ ThreatMapMount
    \/ ThreatMapUnmount
    \/ ThreatMapEffect
    \/ \E seed \in MapSeeds : ThreatMapTimer(seed)

SpecThreatMapPage == Init /\ [][NextThreatMapPage]_vars

\* The random streams and the time ranges the two pages are run with
\* together.
PageSeeds == {11}

PageMonths == {12}

PageTimeRanges == {"7d"}

\* The ThreatMap page and the Analytics page together.
NextPages ==
    \/ ThreatMapMount
    \/ ThreatMapUnmount
    \/ ThreatMapEffect
    \/ \E seed \in PageSeeds : ThreatMapTimer(seed)
    \/ AnalyticsMount
    \/ AnalyticsUnmount
    \/ AnalyticsEffect
    \/ \E seed \in PageSeeds, month \in PageMonths : AnalyticsTimer(seed, month)
    \/ \E range \in PageTimeRanges : HandleTimeRangeChange(range)

\* A timer that is armed fires once its delay has passed: the event loop
\* runs the callback of every timer that is due, mounted page or not.
SpecPagesFair ==
    /\ Init
    /\ [][NextPages]_vars
    /\ WF_vars(\E seed \in PageSeeds : ThreatMapTimer(seed))
    /\ WF_vars(\E seed \in PageSeeds, month \in PageMonths :
                  AnalyticsTimer(seed, month))

\* The Analytics page.
NextAnalyticsPage ==
    \/ AnalyticsMount
    \/ AnalyticsUnmount
    \/ AnalyticsEffect
    \/ \E seed \in Seeds, month \in Months : AnalyticsTimer(seed, month)
    \/ \E range \in PresetTimeRanges : HandleTimeRangeChange(range)

SpecAnalyticsPage == Init /\ [][NextAnalyticsPage]_vars

\* The dashboard fetch: the Dashboard page, other callers of the thunk, and
\* the responses.
NextDashboard ==
    \/ DashboardMount
    \/ DashboardUnmount
    \/ \E response \in HttpResponses : DashboardEffect(response)
    \/ \E response \in HttpResponses : DispatchFetchDashboardData(response)
    \/ \E i \in 1..MaxRequests : SettleFetchDashboardData(i)

SpecDashboard == Init /\ [][NextDashboard]_vars

\* Requests of the threats and of the threat trends, answered in any order.
NextRequests ==
    \/ \E p \in ThreatResponses : RequestThreats(p)
    \/ \E i \in 1..MaxRequests : RespondThreats(i)
    \/ \E p \in TrendResponses : RequestThreatTrends(p)
    \/ \E i \in 1..MaxRequests : RespondThreatTrends(i)

SpecRequests == Init /\ [][NextRequests]_vars

(***************************************************************************)
(* Properties of the threat collection (SpecThreat).                       *)
(***************************************************************************)

\* The sum of the values of an aggregate record, as a reduce with + over
\* Object.values computes it: NaN as soon as one value is NaN.
RECURSIVE SumOver(_, _)
SumOver(m, keys) ==
    IF keys = {} THEN 0
    ELSE LET k == CHOOSE x \in keys : TRUE
             rest == SumOver(m, keys \ {k})
         IN  IF m[k] = NaN \/ rest = NaN THEN NaN ELSE m[k] + rest

SumValues(m) == SumOver(m, DOMAIN m)

Positions == 1..Len(threat.threats)

\* C1: in every reachable state the values of threatsByCategory, of
\* threatsBySeverity and of threatsByStatus each sum to threats.length.
C1_AggregatesSumToCount ==
    /\ SumValues(threat.threatsByCategory) = Len(threat.threats)
    /\ SumValues(threat.threatsBySeverity) = Len(threat.threats)
    /\ SumValues(threat.threatsByStatus) = Len(threat.threats)

\* C2: in every reachable state activeThreats is the number of threats of
\* the collection whose status is 'active'.
C2_ActiveThreatsIsActiveCount ==
    threat.activeThreats =
        Cardinality({i \in Positions : threat.threats[i].status = "active"})

\* C2 witness: updateThreatStatus has just changed a threat of a collection
\* that holds an active and a non-active threat.
C2_Witness ==
    /\ lastAction.type = "threat/updateThreatStatus"
    /\ FindIndex(threat.threats, lastAction.payload[1].id) # 0
    /\ threat.activeThreats = 1
    /\ Len(threat.threats) = 2

\* C3: the selected threat is null or equal, field for field, to a threat
\* that is in the collection.
C3_SelectionIsInCollection ==
    \/ threat.selectedThreat = NULL
    \/ \E i \in Positions : threat.threats[i] = threat.selectedThreat[1]

\* C4: after updateThreatStatus with the id of the selected threat, the
\* selection holds the new status, which is the status of the threat with
\* that id in the collection.
C4_SelectionFollowsUpdate ==
    (/\ lastAction.type = "threat/updateThreatStatus"
     /\ threat.selectedThreat # NULL
     /\ threat.selectedThreat[1].id = lastAction.payload[1].id)
    => /\ threat.selectedThreat[1].status = lastAction.payload[1].status
       /\ \E i \in Positions :
            /\ threat.threats[i].id = lastAction.payload[1].id
            /\ threat.threats[i].status = threat.selectedThreat[1].status

\* C5: no two threats of the collection have the same id.
C5_UniqueIds ==
    \A i, j \in Positions : i # j => threat.threats[i].id # threat.threats[j].id

(***************************************************************************)
(* Properties of the fetch lifecycles (Spec).                              *)
(***************************************************************************)

\* C6: the start action of each of the seven resources sets the resource's
\* loading indicator and leaves no error recorded for the resource.
C6_StartSetsLoadingClearsError ==
    \A r \in Resources :
        lastAction.type = StartType(r) => LoadingOf(r) /\ ErrorOf(r) = NULL

\* C7: the failure action of each of the seven resources clears the
\* resource's loading indicator and records the message it carries, so that
\* an error is recorded for the resource.
C7_FailureInstallsError ==
    \A r \in Resources :
        lastAction.type = FailureType(r)
        => /\ ~LoadingOf(r)
           /\ ErrorOf(r) # NULL
           /\ ErrorOf(r) = lastAction.payload

\* C8: when the dashboard fetch, started by pending, is fulfilled with a
\* payload, status is 'succeeded', data is the payload and error is null.
C8_FulfilledAfterPending ==
    lastAction.type = "dashboard/fetchData/fulfilled"
    => /\ dashboard.status = "succeeded"
       /\ dashboard.data = lastAction.payload
       /\ dashboard.error = NULL

\* The action types of one resource.
TypesOf(r) == {StartType(r), SuccessType(r), FailureType(r)}

\* C9: an action of one analytics sub-resource changes neither the loading
\* flag nor the data of a sibling, nor the error the sibling's failure has
\* just recorded.
C9_SiblingsIndependent ==
    [][\A a, b \in AnalyticsResources :
          (a # b /\ lastAction'.type \in TypesOf(a))
          => /\ LoadingOf(b)' = LoadingOf(b)
             /\ DataOf(b)' = DataOf(b)
             /\ (lastAction.type = FailureType(b)
                    => analytics'.error = analytics.error)]_vars

\* C10: a failure action of one resource changes neither the data stored for
\* any other resource nor any other resource's loading flag.
C10_FailureLeavesOthers ==
    [][\A r \in Resources :
          lastAction'.type = FailureType(r)
          => \A o \in Resources \ {r} :
                /\ DataOf(o)' = DataOf(o)
                /\ LoadingOf(o)' = LoadingOf(o)]_vars

\* C10 witness: the threat-trend fetch has just failed while the other
\* resources hold data and the threat map is loading.
C10_Witness ==
    /\ lastAction.type = "analytics/fetchThreatTrendsFailure"
    /\ analytics.detectionStats.totalDetections # 0
    /\ analytics.geographicData.regions # <<>>
    /\ threat.threats # <<>>
    /\ threat.threatMap.loading
    /\ dashboard.data # NULL

(***************************************************************************)
(* Properties of overlapping requests (SpecRequests).                      *)
(***************************************************************************)

\* The state holds p as the data of resource r.
Stores(r, p) ==
    CASE r = "threats" -> threat.threats = p
      [] r = "threatTrends" -> analytics.threatTrends.data = p

\* Requests i and j are two requests of one resource, i issued before j and
\* answered after it.
Overtaken(i, j) ==
    /\ i < j
    /\ requests[i].resource = requests[j].resource
    /\ requests[j].response # 0
    /\ requests[j].response < requests[i].response

\* C11: when the response of a request has just arrived after the response
\* of a newer request of the same resource, the data stored is the payload
\* of the older request; and when a response has just arrived while another
\* request of the resource is in flight, the loading flag is false.
C11_StaleResponseWins ==
    \A i \in 1..Len(requests) :
        (/\ requests[i].response = Delivered
         /\ Delivered # 0
         /\ lastAction.type = SuccessType(requests[i].resource))
        => /\ (\E j \in 1..Len(requests) : Overtaken(i, j))
                => Stores(requests[i].resource, requests[i].payload)
           /\ (\E j \in InFlight :
                    requests[j].resource = requests[i].resource)
                => ~LoadingOf(requests[i].resource)

\* C11 witness: two requests of the threat trends with different payloads
\* were answered newer first, the older response has just arrived and is
\* the data stored, and a third request of the trends is in flight.
C11_Witness ==
    /\ Len(requests) = 3
    /\ \A i \in 1..3 : requests[i].resource = "threatTrends"
    /\ requests[1].payload # requests[2].payload
    /\ requests[2].response = 1
    /\ requests[1].response = 2
    /\ requests[3].response = 0
    /\ lastAction.type = "analytics/fetchThreatTrendsSuccess"
    /\ analytics.threatTrends.data = requests[1].payload
    /\ ~analytics.threatTrends.loading

(***************************************************************************)
(* Properties of the auth slice (SpecAuth).                                *)
(***************************************************************************)

CredentialsCleared ==
    /\ ~auth.isAuthenticated
    /\ auth.user = NULL
    /\ auth.token = NULL

\* C12: in every state reachable by auth actions, isAuthenticated implies
\* that user and token are both non-null, user is null exactly when token
\* is null, and after logout, loginFailure or initializeAuthFailure
\* isAuthenticated is false and user and token are both null.
C12_AuthenticatedHasCredentials ==
    /\ auth.isAuthenticated => (auth.user # NULL /\ auth.token # NULL)
    /\ (auth.user = NULL) <=> (auth.token = NULL)
    /\ lastAction.type \in
            {"auth/logout", "auth/loginFailure", "auth/initializeAuthFailure"}
       => CredentialsCleared

\* C12 witness: updateUserProfile has just merged a new e-mail address into
\* the user of an authenticated session.
C12_Witness ==
    /\ lastAction.type = "auth/updateUserProfile"
    /\ auth.isAuthenticated
    /\ auth.user # NULL
    /\ auth.user[1].email = "alice@example.org"
    /\ auth.user[1].username = "bob"
    /\ auth.token = Some("token-2")

\* C13: after loginFailure and after initializeAuthFailure the credentials
\* are cleared and the auth state holds an error message, which after
\* loginFailure is the message the action carries.
C13_FailureRecordsError ==
    /\ lastAction.type = "auth/loginFailure"
       => /\ CredentialsCleared
          /\ auth.error = lastAction.payload
          /\ auth.error # NULL
    /\ lastAction.type = "auth/initializeAuthFailure"
       => /\ CredentialsCleared
          /\ auth.error # NULL

\* C30: in every state reachable by auth actions, isAuthenticated implies
\* that error is null, whether the session was authenticated by
\* loginSuccess or by initializeAuthSuccess.
C30_AuthenticatedHasNoError ==
    auth.isAuthenticated => auth.error = NULL

(***************************************************************************)
(* Properties of the settings slice (SpecSettings).                        *)
(***************************************************************************)

SubTrees == {"notifications", "dashboard", "security", "display"}

UpdateType(sub) ==
    CASE sub = "notifications" -> "settings/updateNotificationSettings"
      [] sub = "dashboard" -> "settings/updateDashboardSettings"
      [] sub = "security" -> "settings/updateSecuritySettings"
      [] sub = "display" -> "settings/updateDisplaySettings"

\* C14: an update of one settings sub-tree leaves the fields of the
\* sub-tree that the payload does not have at their previous values, sets
\* the fields the payload has, and changes no other sub-tree, nor theme,
\* nor language.
C14_UpdateIsPartialMerge ==
    [][\A sub \in SubTrees :
          lastAction'.type = UpdateType(sub)
          => LET payload == lastAction'.payload[1]
             IN  /\ DOMAIN settings'[sub] = DOMAIN settings[sub]
                 /\ \A f \in DOMAIN settings[sub] \ DOMAIN payload :
                        settings'[sub][f] = settings[sub][f]
                 /\ \A f \in DOMAIN payload : settings'[sub][f] = payload[f]
                 /\ \A other \in DOMAIN settings \ {sub} :
                        settings'[other] = settings[other]]_vars

\* C14 witness: updateNotificationSettings has just switched the sound off
\* in a tree whose other notification fields, theme and dashboard had been
\* changed from their defaults, and they hold their changed values.
C14_Witness ==
    /\ lastAction = Action("settings/updateNotificationSettings",
                           Some([sound |-> FALSE]))
    /\ settings.notifications =
          [enabled |-> FALSE, sound |-> FALSE, desktop |-> TRUE,
           criticalOnly |-> TRUE]
    /\ settings.theme = "light"
    /\ settings.dashboard.refreshInterval = 60

\* The default tree.
DefaultSettings ==
    [theme |-> "dark",
     language |-> "fr",
     notifications |->
        [enabled |-> TRUE, sound |-> TRUE, desktop |-> TRUE,
         criticalOnly |-> FALSE],
     dashboard |->
        [refreshInterval |-> 30,
         defaultView |-> "overview",
         widgets |->
            <<"threatSummary", "recentEvents", "systemStatus", "threatMap">>,
         compactMode |-> FALSE],
     security |->
        [mfaEnabled |-> FALSE, sessionTimeout |-> 30, ipWhitelist |-> <<>>],
     display |->
        [animationsEnabled |-> TRUE, highContrastMode |-> FALSE,
         fontSize |-> "medium", threatColorMode |-> "standard"]]

\* C15: resetSettings, applied to any reachable settings state, gives the
\* default tree, and applied to its own result gives that result again.
C15_ResetRestoresDefaults ==
    [][lastAction'.type = "settings/resetSettings"
       => /\ settings' = DefaultSettings
          /\ resetSettings(settings') = settings']_vars

\* C15 witness: resetSettings has just been applied and the tree is the
\* default tree.
C15_Witness ==
    /\ lastAction.type = "settings/resetSettings"
    /\ settings = DefaultSettings

(***************************************************************************)
(* Properties of the time range (SpecTimeRange).                           *)
(***************************************************************************)

NoCustomTimeRange ==
    /\ analytics.customTimeRange.start = NULL
    /\ analytics.customTimeRange.end = NULL

\* C16: after setTimeRange with '1h', '24h', '7d' or '30d' start and end of
\* customTimeRange are null; and in every reachable state in which timeRange
\* is not 'custom' both are null.
C16_PresetClearsCustomRange ==
    /\ (/\ lastAction.type = "analytics/setTimeRange"
        /\ lastAction.payload[1] \in {"1h", "24h", "7d", "30d"})
       => /\ NoCustomTimeRange
          /\ analytics.timeRange = lastAction.payload[1]
    /\ analytics.timeRange # "custom" => NoCustomTimeRange

\* C16 witness: setTimeRange('7d') has just been reduced, after a fetch of
\* the threat trends had delivered data, and no custom range is left.
C16_Witness ==
    /\ lastAction = Action("analytics/setTimeRange", Some("7d"))
    /\ analytics.timeRange = "7d"
    /\ analytics.threatTrends.data \in TrendPayloads
    /\ NoCustomTimeRange

\* C17: after setCustomTimeRange timeRange is 'custom' and customTimeRange
\* is the pair the action carries.
C17_CustomRangeForcesCustom ==
    lastAction.type = "analytics/setCustomTimeRange"
    => /\ analytics.timeRange = "custom"
       /\ analytics.customTimeRange = lastAction.payload[1]

\* C17 witness: setCustomTimeRange has just stored a pair with a start and
\* no end, and the range selector is 'custom'.
C17_Witness ==
    /\ lastAction.type = "analytics/setCustomTimeRange"
    /\ analytics.timeRange = "custom"
    /\ analytics.customTimeRange =
          [start |-> Some("2024-01-01"), end |-> NULL]

(***************************************************************************)
(* Properties of the threat actions (SpecThreat).                          *)
(***************************************************************************)

\* The entry of an aggregate record for a key, 0 when the record has none.
Entry(m, k) == IF k \in DOMAIN m THEN m[k] ELSE 0

\* From record m to record n the entry of k has grown by 1 and no other
\* entry has changed.
GrowsAt(m, n, k) ==
    /\ Entry(m, k) # NaN
    /\ Entry(n, k) = Entry(m, k) + 1
    /\ \A x \in (DOMAIN m \cup DOMAIN n) \ {k} : Entry(n, x) = Entry(m, x)

\* C18: addNewThreat puts the new threat at index 0 and the previous
\* threats after it in their order, adds 1 to activeThreats exactly when
\* the new threat is 'active', and adds 1 to the entries of the category,
\* severity and status maps for the new threat, leaving the other entries.
C18_AddNewThreatPrepends ==
    [][lastAction'.type = "threat/addNewThreat"
       => LET new == lastAction'.payload[1]
          IN  /\ threat'.threats = <<new>> \o threat.threats
              /\ threat'.activeThreats =
                    threat.activeThreats +
                        (IF new.status = "active" THEN 1 ELSE 0)
              /\ GrowsAt(threat.threatsByCategory,
                         threat'.threatsByCategory, new.type)
              /\ GrowsAt(threat.threatsBySeverity,
                         threat'.threatsBySeverity, new.severity)
              /\ GrowsAt(threat.threatsByStatus,
                         threat'.threatsByStatus, new.status)]_vars

\* Threats a and b are equal in every field but, possibly, the status.
SameButStatus(a, b) == [a EXCEPT !.status = b.status] = b

\* C19: updateThreatStatus gives the threat with the given id the given
\* status and changes no other field and no other threat; an action other
\* than fetchThreatsSuccess keeps every threat of the collection, in order,
\* and does not shorten the collection; an action other than
\* fetchThreatsSuccess, addNewThreat and updateThreatStatus leaves the
\* collection as it is.
C19_ThreatLifecycle ==
    [][LET type == lastAction'.type
           old == threat.threats
           new == threat'.threats
       IN  /\ type = "threat/updateThreatStatus"
              => LET payload == lastAction'.payload[1]
                     threatIndex == FindIndex(old, payload.id)
                 IN  /\ Len(new) = Len(old)
                     /\ \A i \in 1..Len(old) :
                            /\ SameButStatus(old[i], new[i])
                            /\ i # threatIndex => new[i] = old[i]
                     /\ threatIndex # 0
                            => new[threatIndex].status = payload.status
           /\ type # "threat/fetchThreatsSuccess"
              => /\ Len(new) >= Len(old)
                 /\ \A i \in 1..Len(old) :
                        SameButStatus(old[i], new[i + Len(new) - Len(old)])
           /\ type \notin {"threat/fetchThreatsSuccess", "threat/addNewThreat",
                           "threat/updateThreatStatus"}
              => new = old]_vars

\* C19 witness: updateThreatStatus has just resolved the first of two
\* threats; its other fields and the second threat are as they were
\* fetched.
C19_Witness ==
    /\ lastAction = Action("threat/updateThreatStatus",
                           Some([id |-> "t1", status |-> "resolved"]))
    /\ threat.threats = <<[ThreatA EXCEPT !.status = "resolved"], ThreatB>>

\* C20: selectThreat with an id that no threat of the collection has sets
\* selectedThreat to null and changes nothing else of the threat slice.
C20_SelectAbsentIdGivesNull ==
    [][(/\ lastAction'.type = "threat/selectThreat"
        /\ \A i \in Positions : threat.threats[i].id # lastAction'.payload[1])
       => /\ threat'.selectedThreat = NULL
          /\ threat' = [threat EXCEPT !.selectedThreat = NULL]]_vars

\* C20 witness: selectThreat has just been reduced with an id that none of
\* the two threats of the collection has, and nothing is selected.
C20_Witness ==
    /\ lastAction = Action("threat/selectThreat", Some("t3"))
    /\ Len(threat.threats) = 2
    /\ \A i \in Positions : threat.threats[i].id # "t3"
    /\ threat.selectedThreat = NULL

(***************************************************************************)
(* Properties of the dashboard fetch (SpecDashboard).                      *)
(***************************************************************************)

\* Request i of the dashboard is answered in this step.
Settles(i) ==
    /\ i \in InFlight
    /\ requests[i].resource = "dashboard"
    /\ requests'[i].response # 0

\* C21: when the response to the dashboard request is not ok, the thunk is
\* rejected whatever the body is, status becomes 'failed', error is a
\* message with the status code of the response, and data keeps its value;
\* when the response is ok and its body parses, the body becomes data.
C21_NonOkResponseFails ==
    [][\A i \in 1..Len(requests) :
          Settles(i)
          => LET response == requests[i].payload
             IN  /\ ~HttpOk(response.status)
                    => /\ lastAction'.type = "dashboard/fetchData/rejected"
                       /\ dashboard'.status = "failed"
                       /\ dashboard'.error =
                            Some("Server responded with status "
                                    \o ToString(response.status))
                       /\ dashboard'.data = dashboard.data
                 /\ (HttpOk(response.status) /\ response.body # NULL)
                    => /\ lastAction'.type = "dashboard/fetchData/fulfilled"
                       /\ dashboard'.status = "succeeded"
                       /\ dashboard'.data = response.body]_vars

\* C21 witness: a response with status 500 and a well-formed body has just
\* been received after an earlier fetch had succeeded: the fetch is failed
\* with the message for 500 and data is the body of the earlier response.
C21_Witness ==
    /\ lastAction.type = "dashboard/fetchData/rejected"
    /\ \E i \in 1..Len(requests) :
          /\ requests[i].response = Delivered
          /\ requests[i].payload.status = 500
          /\ requests[i].payload.body # dashboard.data
    /\ dashboard.status = "failed"
    /\ dashboard.error = Some("Server responded with status 500")
    /\ dashboard.data = Some(DashboardA)

\* No request of the dashboard is in flight.
NoDashboardRequestInFlight ==
    \A i \in InFlight : requests[i].resource # "dashboard"

\* C22: the dashboard status, once it is not 'idle', is never 'idle' again;
\* a step of the Dashboard page changes the dashboard state only when
\* status is 'idle'; and when status is 'failed' and no request is in
\* flight, the dashboard state, its error included, changes only by the
\* pending action of a fetch that a caller other than the page dispatches.
C22_NoAutomaticRetry ==
    [][/\ dashboard.status # "idle" => dashboard'.status # "idle"
       /\ (pages' # pages /\ dashboard' # dashboard)
          => dashboard.status = "idle"
       /\ (/\ dashboard.status = "failed"
           /\ NoDashboardRequestInFlight
           /\ dashboard' # dashboard)
          => /\ lastAction'.type = "dashboard/fetchData/pending"
             /\ Len(requests') = Len(requests) + 1
             /\ pages' = pages]_vars

\* C22 witness: the fetch the page dispatched has failed, no request is in
\* flight, and the effect of the mounted page has run again with status
\* 'failed' without dispatching.
C22_Witness ==
    /\ dashboard.status = "failed"
    /\ dashboard.error # NULL
    /\ Len(requests) = 1
    /\ NoDashboardRequestInFlight
    /\ pages.dashboard.mounted
    /\ pages.dashboard.deps = Some("failed")
    /\ lastAction.type = "dashboard/fetchData/rejected"

(***************************************************************************)
(* Properties of the Analytics page (SpecAnalyticsPage).                   *)
(***************************************************************************)

\* The number of labels the claims give for a time range.
Granularity(timeRange) ==
    CASE timeRange = "1h" -> 12
      [] timeRange = "24h" -> 24
      [] timeRange = "7d" -> 7
      [] timeRange = "30d" -> 30

\* The values the claims give for the series of a severity.
SeverityRange(n) ==
    CASE n = 1 -> 0..4
      [] n = 2 -> 2..11
      [] n = 3 -> 5..19
      [] n = 4 -> 10..29

\* The timer that has just fired held the range timeRange.
TimerFiredFor(timeRange) ==
    /\ pages.analytics.timers # <<>>
    /\ Head(pages.analytics.timers) = timeRange
    /\ pages'.analytics.timers = Tail(pages.analytics.timers)

\* C23: the trends generated for a time range have 12 labels for '1h', from
\* 0:00 to 0:55 in steps of 5 minutes, 24 for '24h', 7 for '7d' and 30 for
\* '30d'; there are four datasets, each as long as the labels, and the
\* values of each lie in the range of its severity.
C23_TrendsMatchTimeRange ==
    [][\A timeRange \in PresetTimeRanges :
          TimerFiredFor(timeRange)
          => LET data == analytics'.threatTrends.data
             IN  /\ Len(data.labels) = Granularity(timeRange)
                 /\ timeRange = "1h"
                    => data.labels =
                         <<"0:00", "0:05", "0:10", "0:15", "0:20", "0:25",
                           "0:30", "0:35", "0:40", "0:45", "0:50", "0:55">>
                 /\ Len(data.datasets) = 4
                 /\ \A n \in 1..4 :
                        /\ Len(data.datasets[n].data) = Len(data.labels)
                        /\ \A i \in 1..Len(data.labels) :
                              data.datasets[n].data[i] \in SeverityRange(n)]_vars

\* C23 witness: the stored trends were generated for '1h': 12 labels from
\* 0:00 to 0:55, and the low series reaches both ends of its range.
C23_Witness ==
    LET data == analytics.threatTrends.data
    IN  /\ lastAction.type = "analytics/fetchDetectionStatsSuccess"
        /\ Len(data.labels) = 12
        /\ data.labels[1] = "0:00"
        /\ data.labels[12] = "0:55"
        /\ \E i, j \in 1..12 :
              /\ data.datasets[4].data[i] = 10
              /\ data.datasets[4].data[j] = 29

\* C28: whenever threatTrends.loading is false and the stored trend series
\* is not empty, the number of stored labels is the granularity of the
\* selected timeRange, also when the range has been changed while the
\* timer of an earlier range was pending.
C28_StoredTrendsMatchSelectedRange ==
    (/\ ~analytics.threatTrends.loading
     /\ analytics.threatTrends.data.labels # <<>>)
    => Len(analytics.threatTrends.data.labels)
         = Granularity(analytics.timeRange)

(***************************************************************************)
(* Properties of the ThreatMap page (SpecThreatMapPage).                   *)
(***************************************************************************)

MapNodes == threat.threatMap.nodes

MapLinks == threat.threatMap.links

NodeIds == {MapNodes[k].id : k \in 1..Len(MapNodes)}

AssetIds == {"asset-" \o ToString(i) : i \in 0..14}

\* The positions of the links whose source is the node id.
LinksFrom(id) == {k \in 1..Len(MapLinks) : MapLinks[k].source = id}

\* C24: in a generated graph each of the 8 threat nodes is the source of 1
\* to 3 links, which go to asset nodes that are pairwise different; and no
\* selection loop fails to end.
C24_ThreatLinksDistinct ==
    /\ ~pages.threatMap.hung
    /\ MapNodes # <<>>
       => \A i \in 0..7 :
            LET from == LinksFrom("threat-" \o ToString(i))
            IN  /\ "threat-" \o ToString(i) \in NodeIds
                /\ Cardinality(from) \in 1..3
                /\ \A k \in from : MapLinks[k].target \in AssetIds
                /\ \A k, l \in from :
                      k # l => MapLinks[k].target # MapLinks[l].target

\* C24 witness: a graph has been generated in which one threat has three
\* links and another has one.
C24_Witness ==
    /\ lastAction.type = "threat/fetchThreatMapSuccess"
    /\ Len(MapNodes) = 23
    /\ \E i, j \in 0..7 :
          /\ Cardinality(LinksFrom("threat-" \o ToString(i))) = 3
          /\ Cardinality(LinksFrom("threat-" \o ToString(j))) = 1

\* C25: in a generated graph there is a link from asset-i to
\* asset-((i+1) mod 15) for every i in 0..14, no link connects an asset to
\* itself, and both ends of every link are ids of nodes of the graph.
C25_AssetsFormRing ==
    MapNodes # <<>>
    => /\ \A i \in 0..14 :
            \E k \in 1..Len(MapLinks) :
                /\ MapLinks[k].source = "asset-" \o ToString(i)
                /\ MapLinks[k].target = "asset-" \o ToString((i + 1) % 15)
       /\ \A k \in 1..Len(MapLinks) :
            /\ MapLinks[k].source # MapLinks[k].target
            /\ MapLinks[k].source \in NodeIds
            /\ MapLinks[k].target \in NodeIds

(***************************************************************************)
(* The aggregate maps, key by key (SpecThreat).                            *)
(***************************************************************************)

\* The number of threats of the collection whose field f has the value v.
NumberWith(f, v) == Cardinality({k \in Positions : threat.threats[k][f] = v})

\* The map m has exactly the values of the field f that occur in the
\* collection as keys, each with the number of threats that have it.
ExactCount(m, f) ==
    /\ DOMAIN m = {threat.threats[k][f] : k \in Positions}
    /\ \A v \in DOMAIN m : m[v] = NumberWith(f, v)

\* C26: in every reachable state threatsByCategory[t] is the number of
\* threats of type t and t is absent when that number is 0; likewise
\* threatsBySeverity for each severity and threatsByStatus for each status.
C26_AggregatesExactPerKey ==
    /\ ExactCount(threat.threatsByCategory, "type")
    /\ ExactCount(threat.threatsBySeverity, "severity")
    /\ ExactCount(threat.threatsByStatus, "status")

\* C27: updateThreatStatus with an id that no threat of the collection has
\* leaves the whole threat slice as it is: the collection, activeThreats,
\* the three aggregate maps and the selection, also when the selection
\* holds a threat with that id.
C27_UpdateAbsentIdChangesNothing ==
    [][(/\ lastAction'.type = "threat/updateThreatStatus"
        /\ \A i \in Positions :
              threat.threats[i].id # lastAction'.payload[1].id)
       => threat' = threat]_vars

\* C27 witness: updateThreatStatus has just been reduced with the id of
\* the selected threat and another status than the selection has, while
\* the collection, which is not empty, has no threat with that id.
C27_Witness ==
    /\ lastAction = Action("threat/updateThreatStatus",
                           Some([id |-> "t1", status |-> "resolved"]))
    /\ threat.threats # <<>>
    /\ \A i \in Positions : threat.threats[i].id # "t1"
    /\ threat.selectedThreat = Some(ThreatA)

(***************************************************************************)
(* The fetches of the pages (SpecPagesFair).                               *)
(***************************************************************************)

\* A timer of the page has fired in this step.
TimerFired(page) ==
    /\ pages[page].timers # <<>>
    /\ pages'[page].timers = Tail(pages[page].timers)

\* A timer of the page has been armed in this step.
TimerArmed(page) ==
    /\ Len(pages'[page].timers) = Len(pages[page].timers) + 1
    /\ SubSeq(pages'[page].timers, 1, Len(pages[page].timers))
         = pages[page].timers

\* The action of the given type is dispatched in this step: the step is
\* not a mount or an unmount, which dispatch nothing.
Dispatches(type) ==
    /\ lastAction'.type = type
    /\ \A page \in DOMAIN pages : pages'[page].mounted = pages[page].mounted

\* C29: with timers that fire, every fetchThreatMapStart the ThreatMap page
\* dispatches is followed by fetchThreatMapSuccess and every
\* fetchThreatTrendsStart / fetchDetectionStatsStart the Analytics page
\* dispatches by the matching success; a success is dispatched only by a
\* timer that a start has armed before; the loading flag of each of the
\* three resources returns to false, and is false whenever no timer of its
\* page is pending.
C29_StartLeadsToSuccess ==
    /\ (lastAction.type = "threat/fetchThreatMapStart")
          ~> (lastAction.type = "threat/fetchThreatMapSuccess")
    /\ (lastAction.type = "analytics/fetchDetectionStatsStart")
          ~> (lastAction.type = "analytics/fetchDetectionStatsSuccess")
    /\ [][/\ Dispatches("threat/fetchThreatMapStart")
             => TimerArmed("threatMap") /\ threat'.threatMap.loading
          /\ Dispatches("threat/fetchThreatMapSuccess")
             => TimerFired("threatMap") /\ ~threat'.threatMap.loading
          /\ Dispatches("analytics/fetchDetectionStatsStart")
             => /\ TimerArmed("analytics")
                /\ analytics'.threatTrends.loading
                /\ analytics'.detectionStats.loading
          /\ Dispatches("analytics/fetchDetectionStatsSuccess")
             => /\ TimerFired("analytics")
                /\ ~analytics'.threatTrends.loading
                /\ ~analytics'.detectionStats.loading]_vars
    /\ threat.threatMap.loading ~> ~threat.threatMap.loading
    /\ analytics.threatTrends.loading ~> ~analytics.threatTrends.loading
    /\ analytics.detectionStats.loading ~> ~analytics.detectionStats.loading
    /\ [](pages.threatMap.timers = <<>> => ~threat.threatMap.loading)
    /\ [](pages.analytics.timers = <<>>
            => /\ ~analytics.threatTrends.loading
               /\ ~analytics.detectionStats.loading)

\* C29 witness: the timers of both pages have fired after the starts, the
\* last of them on the ThreatMap page; the graph and the trends are stored,
\* no timer is pending and none of the three resources is loading.
C29_Witness ==
    /\ lastAction.type = "threat/fetchThreatMapSuccess"
    /\ pages.threatMap.timers = <<>>
    /\ pages.analytics.timers = <<>>
    /\ threat.threatMap.nodes # <<>>
    /\ analytics.threatTrends.data.labels # <<>>
    /\ analytics.detectionStats.totalDetections > 0
    /\ ~threat.threatMap.loading
    /\ ~analytics.threatTrends.loading
    /\ ~analytics.detectionStats.loading

=============================================================================
